---- MODULE Spec2Model ----
(***************************************************************************)
(* Polling and lifecycle layer of the CloudShell Sandbox REST client:      *)
(*   SandboxRestApiSession  (src/src/cloudshell/sandbox_rest/api.py)       *)
(*   SandboxControllerContext (.../sandbox_context.py)                     *)
(*   _poll_sandbox_state (src/cloudshell/.../helpers/polling_helpers.py)   *)
(* Spec is the controller with its polls; PredicateSpec applies the        *)
(* polling predicates to every state and status; SessionSpec is the        *)
(* login / logout cycle of the REST session; OutsideSpec is Spec with a    *)
(* reservation that can be ended from outside during setup; TeardownSpec   *)
(* is teardown_sandbox on a Ready sandbox with an empty feed; TimingSpec   *)
(* applies the retry settings of every poll (polling.py included) to its   *)
(* arguments; RestControllerSpec is SandboxRestController                  *)
(* (src/cloudshell/sandbox_rest/sandbox_controller.py).                    *)
(* The remote sandbox (state, activity feed, command execution) is the     *)
(* environment; it moves on its own between the client's HTTP calls.       *)
(* Time is the client's clock in seconds: it advances only while the       *)
(* client sleeps between two polls (an HTTP call takes no time).           *)
(***************************************************************************)
EXTENDS Integers, Sequences, FiniteSets, TLC

\* ---------------------------------------------------------------- bounds
MaxEvents == 2          \* activity events the remote sandbox emits
MaxCalls == 2           \* top-level calls the test driver makes
MaxMinutes == 1         \* max_polling_minutes of every poll
MaxTokens == 2          \* tokens the server issues to the session
MaxRequests == 5        \* requests a session sends
Frequencies == {30, 45} \* polling_frequency_seconds values
MaxArgMinutes == 4      \* max_polling_minutes handed to a poll on its own
ArgSeconds == {1, 15, 30, 45, 60}

\* ------------------------------------------------------------- constants
None == "None"
NoDuration == -1
SecondsPerMinute == 60

\* model.SandboxStates
SandboxStates ==
    {"Pending", "BeforeSetup", "Pending Setup", "Setup",
     "Ready", "Error", "Teardown", "Ended"}
get_post_setup_states == {"Ready", "Error", "Teardown", "Ended"}
get_active_states == {"Ready", "Error"}

\* model.CommandExecutionStates
CommandExecutionStates ==
    {"Pending", "Running", "Stopping", "Cancelled", "Complete", "Failed"}
get_incomplete_execution_states == {"Pending", "Running"}

\* model.SandboxEventTypes
SandboxEventTypes == {"success", "error"}

\* ------------------------------------------------------- polling helpers
\* the setup predicate testing the setup states of polling.py
_should_keep_polling_setup_listed(state) == state \in {"BeforeSetup", "Setup"}

_should_keep_polling_setup(state) == state \notin get_post_setup_states

_should_keep_polling_teardown(state) == state = "Teardown"

\* the execution predicate testing for the two final statuses
_should_keep_polling_execution_not_final(status) ==
    status \notin {"Complete", "Failed"}

_should_keep_polling_execution(status) ==
    status \in get_incomplete_execution_states

\* polling.py: _should_keep_polling_setup of the module of helper functions
polling_should_keep_polling_setup(state) == state \in {"BeforeSetup", "Setup"}

\* a header check that never raises
validate_auth_header_raises_never(header) == FALSE

\* _validate_auth_header / _validate_auth_headers: SandboxRestAuthException
\* is raised when no Authorization header is set
validate_auth_header_raises(header) == ~header.present

\* the guard of launch_sandbox dropped
launch_returns_early_never(id) == FALSE

\* launch_sandbox: "if self.sandbox_id: return"
launch_returns_early(id) == id # None

\* the guard of teardown_sandbox always taken
teardown_returns_early_always(id) == TRUE

\* the guard of teardown_sandbox dropped
teardown_returns_early_never(id) == FALSE

\* the guard of teardown_sandbox with its "not" dropped
teardown_returns_early_inverted(id) == id # None

\* teardown_sandbox: "if not self.sandbox_id: return"
teardown_returns_early(id) == id = None

\* polling_func handed to _poll_orchestration_state
polling_func(orchestration_type, state) ==
    IF orchestration_type = "SETUP"
    THEN _should_keep_polling_setup(state)
    ELSE _should_keep_polling_teardown(state)

\* the retry condition wired to the setup predicate for every poll
retry_if_result_setup_only(orchestration_type, state) ==
    _should_keep_polling_setup(state)

\* @retry(retry=retry_if_result(poll_and_log)): retry while polling_func
\* holds of the fetched value
retry_if_result(orchestration_type, state) ==
    polling_func(orchestration_type, state)

\* every except RetryError raising the orchestration timeout
RetryErrorHandler_same(method) == "OrchestrationPollingTimeout"

\* except RetryError: the timeout exception of each polling method
RetryErrorHandler(method) ==
    IF method = "poll_command_execution"
    THEN "CommandPollingTimeout"
    ELSE "OrchestrationPollingTimeout"

\* the delay taken in milliseconds, as polling.py does
stop_after_delay_ms(max_polling_minutes, seconds_since_start) ==
    seconds_since_start >= max_polling_minutes * 60000

\* tenacity stop_after_delay(max_polling_minutes * 60)
stop_after_delay(max_polling_minutes, seconds_since_start) ==
    seconds_since_start >= max_polling_minutes * SecondsPerMinute

\* helpers/polling_helpers.py: the predicates of the retrying-based poller
_should_we_keep_polling_setup(state) == state \in {"BeforeSetup", "Setup"}

_should_we_keep_polling_teardown(state) == state = "Teardown"

\* polling_func handed to _poll_sandbox_state by poll_sandbox_setup /
\* poll_sandbox_teardown of polling_helpers.py
helpers_polling_func(orchestration_type, state) ==
    IF orchestration_type = "SETUP"
    THEN _should_we_keep_polling_setup(state)
    ELSE _should_we_keep_polling_teardown(state)

\* @retry(retry_on_result=polling_func, ...) of the retrying library, with
\* no retry_on_exception given: an attempt that raised is always retried,
\* an attempt that returned is retried when polling_func holds of its value
should_reject(has_exception, polling_result) ==
    IF has_exception THEN TRUE ELSE polling_result

\* @retry(stop_max_delay=max_polling_minutes * 60000), in milliseconds
stop_max_delay(max_polling_minutes, delay_since_first_attempt_ms) ==
    delay_since_first_attempt_ms >= max_polling_minutes * 60000

\* @retry(wait_fixed=polling_frequency_seconds * 1000), in milliseconds
retrying_wait_fixed(polling_frequency_seconds) ==
    polling_frequency_seconds * 1000

\* ------------------------------------------------------ activity feed
IsError(e) == e.event_type = "error"

TailOf(s, n) == IF Len(s) <= n THEN s ELSE SubSeq(s, Len(s) - n + 1, Len(s))

\* get_sandbox_activity that never sends error_only
get_sandbox_activity_all(feed, error_only, from_event_id, tail) ==
    LET FromId(e) == e.id >= from_event_id
        b == IF from_event_id # 0 THEN SelectSeq(feed, FromId) ELSE feed
    IN  IF tail # 0 THEN TailOf(b, tail) ELSE b

\* get_sandbox_activity: a parameter is sent only when it is truthy;
\* from_event_id is the id of the event where the server starts the listing
get_sandbox_activity(feed, error_only, from_event_id, tail) ==
    LET a == IF error_only THEN SelectSeq(feed, IsError) ELSE feed
        FromId(e) == e.id >= from_event_id
        b == IF from_event_id # 0 THEN SelectSeq(a, FromId) ELSE a
    IN  IF tail # 0 THEN TailOf(b, tail) ELSE b

\* FailedOrchestrationException.__init__: error_events or []
error_events_or_empty(given, evs) == IF given THEN evs ELSE << >>

\* ------------------------------------------------------------ records
NoErrors == [isNone |-> TRUE, events |-> << >>]
SomeErrors(evs) == [isNone |-> FALSE, events |-> evs]

NoOutcome ==
    [op |-> "none", kind |-> "none", exc |-> None, events |-> << >>,
     state |-> None]
Returned(o, st) ==
    [op |-> o, kind |-> "return", exc |-> None, events |-> << >>,
     state |-> st]
Raised(o, e, evs) ==
    [op |-> o, kind |-> "raise", exc |-> e, events |-> evs, state |-> None]

\* exceptions.py: the classes an exception is an instance of; an error of
\* the transport (requests) is none of the package's classes
ExceptionClasses(exc) ==
    IF exc \in {"SetupFailedException", "TeardownFailedException"}
    THEN {exc, "FailedOrchestrationException", "SandboxRestException"}
    ELSE IF exc \in {"SandboxRestAuthException", "OrchestrationPollingTimeout",
                     "CommandPollingTimeout", "CommandExecutionFailed"}
    THEN {exc, "SandboxRestException"}
    ELSE {exc}

\* launch_sandbox: "except exceptions.SetupFailedException as e"
launch_except_class == "SetupFailedException"

\* the except clause of teardown_sandbox widened to the package's base class
teardown_except_class_base == "SandboxRestException"

\* teardown_sandbox: "except exceptions.TeardownFailedException as e"
teardown_except_class == "TeardownFailedException"

\* the handler of launch_sandbox storing an empty list
launch_handler_errors_empty(error_events) == SomeErrors(<< >>)

\* launch_sandbox: "self.setup_errors = e.error_events"
launch_handler_errors(error_events) == SomeErrors(error_events)

\* the handler of teardown_sandbox storing an empty list
teardown_handler_errors_empty(error_events) == SomeErrors(<< >>)

\* teardown_sandbox: "self.teardown_errors = e.error_events"
teardown_handler_errors(error_events) == SomeErrors(error_events)

\* a refresh that keeps the cached list
refresh_components_keep(all_components_now, inventory) == all_components_now

\* SandboxComponents.refresh_components:
\* "self.all_components = api.get_sandbox_components(sandbox_id)"
refresh_components(all_components_now, inventory) == inventory

\* components the remote sandbox lists in a given state
InventoryOf(state) ==
    IF state \in get_active_states THEN {"app", "switch"}
    ELSE IF state \in {"Teardown", "Ended"} THEN {"switch"}
    ELSE {}

VARIABLES
    \* remote sandbox
    sbState,            \* "None" before the sandbox exists
    events,             \* activity feed, ids strictly increasing
    stopPending,        \* a stop request was accepted, teardown not begun
    exStatus,           \* status of the command execution, "None" if none
    \* SandboxControllerContext fields
    sandbox_id,
    sandbox_request,
    teardown_settings,
    setup_duration_seconds,
    teardown_duration_seconds,
    setup_errors,
    teardown_errors,
    all_components,
    \* the call in progress
    ctl,                \* controller / api method on the stack
    pc,                 \* position inside it
    poll_cfg,           \* max_polling_minutes, polling_frequency_seconds
    orch,               \* orchestration_type of the poll
    elapsed,            \* seconds since the call started
    fetched,            \* values fetched by the current poll, in order
    sandbox_details,    \* state of the snapshot the poll returned
    latest_event_id,    \* watermark of poll_sandbox_teardown
    stop_response,      \* result of the stop request of the call in
                        \* progress, "None" if none was sent
    \* with-statement
    scope,              \* none, enter, body, exit, left; failed when
                        \* __enter__ raised
    bodyExc,            \* exception the body raised, "None" if it did not
    scopeOutcome,       \* what the code around the with-block observes
    \* observations
    calls,
    startCalls,
    startReturns,
    stopCalls,
    exitStopCalls,      \* stop requests sent from __exit__
    apiOutcome,         \* outcome of the last api polling method
    outcome,            \* outcome of the last controller method
    logged,             \* error-log lines written by the controller
    fetchErrors,        \* fetches of the current poll that raised
    \* session of the REST client (SandboxRestApiSession / ...Client)
    client,             \* which client class the session is
    user_password,      \* username and password are stored on the session
    token,              \* self.token / self.auth_token
    Authorization,      \* the Authorization header, "None" when not set
    serverTokens,       \* tokens the server accepts
    issued,             \* tokens the server has issued so far
    requests,           \* requests sent to the server
    response,           \* outcome of the last session method
    \* arguments and result of a polling predicate
    state_arg,
    status_arg,
    verdict,
    \* arguments of a poll and the retry settings it runs with
    minutes_arg,
    seconds_arg,
    retry_settings,
    \* SandboxRestController flags
    setup_finished,
    sandbox_ended

remoteVars == <<sbState, events, stopPending, exStatus>>
fieldVars ==
    <<sandbox_id, sandbox_request, teardown_settings, setup_duration_seconds,
      teardown_duration_seconds, setup_errors, teardown_errors,
      all_components>>
callVars ==
    <<ctl, pc, poll_cfg, orch, elapsed, fetched, sandbox_details,
      latest_event_id, stop_response>>
scopeVars == <<scope, bodyExc, scopeOutcome>>
obsVars ==
    <<calls, startCalls, startReturns, stopCalls, exitStopCalls, apiOutcome,
      outcome, logged>>
sessionVars ==
    <<client, user_password, token, Authorization, serverTokens, issued,
      requests, response>>
predicateVars == <<state_arg, status_arg, verdict>>
timingVars == <<minutes_arg, seconds_arg, retry_settings>>
flagVars == <<setup_finished, sandbox_ended>>
otherVars == <<sessionVars, predicateVars, timingVars, flagVars>>
vars ==
    <<remoteVars, fieldVars, callVars, scopeVars, obsVars, fetchErrors,
      otherVars>>

PollSettings ==
    [max_polling_minutes : {MaxMinutes},
     polling_frequency_seconds : Frequencies]
NoCfg == [max_polling_minutes |-> 0, polling_frequency_seconds |-> 0]
NoRequest ==
    [present |-> FALSE, max_polling_minutes |-> 0,
     polling_frequency_seconds |-> 0]
StartRequest(s) ==
    [present |-> TRUE, max_polling_minutes |-> s.max_polling_minutes,
     polling_frequency_seconds |-> s.polling_frequency_seconds]

SetupError == [id |-> 1, event_type |-> "error"]

\* SandboxControllerContext.__init__ : either a start request and no
\* sandbox yet, or the id of an existing sandbox (possibly with a request)
ControllerInit ==
    /\ \/ /\ sandbox_id = None
          /\ sbState = None
          /\ events = << >>
          /\ \E s \in PollSettings :
                /\ sandbox_request = StartRequest(s)
                /\ teardown_settings = s
       \/ /\ sandbox_id = "sb1"
          /\ sbState \in get_active_states
          /\ events = IF sbState = "Error" THEN <<SetupError>> ELSE << >>
          /\ sandbox_request = NoRequest
          /\ teardown_settings \in PollSettings
    /\ stopPending = FALSE
    /\ exStatus = None
    /\ setup_duration_seconds = NoDuration
    /\ teardown_duration_seconds = NoDuration
    /\ setup_errors = NoErrors
    /\ teardown_errors = NoErrors
    /\ all_components = {}
    /\ ctl = "idle" /\ pc = "idle"
    /\ poll_cfg = NoCfg
    /\ orch = None
    /\ elapsed = 0
    /\ fetched = << >>
    /\ sandbox_details = None
    /\ latest_event_id = 0
    /\ stop_response = None
    /\ scope = "none" /\ bodyExc = None /\ scopeOutcome = NoOutcome
    /\ calls = 0 /\ startCalls = 0 /\ startReturns = 0
    /\ stopCalls = 0 /\ exitStopCalls = 0
    /\ apiOutcome = NoOutcome /\ outcome = NoOutcome
    /\ logged = {}
    /\ fetchErrors = 0

\* api.py: token="" / self.token = None: no token
NoToken == 0

NoHeader == [present |-> FALSE, token |-> NoToken]
BasicHeader(tok) == [present |-> TRUE, token |-> tok]
NoResponse == [method |-> "none", kind |-> "none", exc |-> None]

\* the session the controller is given: SandboxRestApiSession.__init__ has
\* logged in with the username and password and holds the first token
SessionLoggedIn ==
    /\ client = "SandboxRestApiSession"
    /\ user_password = TRUE
    /\ token = 1
    /\ Authorization = BasicHeader(1)
    /\ serverTokens = {1}
    /\ issued = 1
    /\ requests = 0
    /\ response = NoResponse

NoVerdict == [predicate |-> "none", result |-> FALSE]

\* no polling predicate is being evaluated on its own
PredicateIdle ==
    /\ state_arg = None
    /\ status_arg = None
    /\ verdict = NoVerdict

NoSettings == [variant |-> "none", wait_seconds |-> 0, timeout_seconds |-> 0]

\* no poll is being configured on its own
TimingIdle ==
    /\ minutes_arg = 0
    /\ seconds_arg = 0
    /\ retry_settings = NoSettings

\* no SandboxRestController: its flags are at their class defaults
FlagsIdle ==
    /\ setup_finished = FALSE
    /\ sandbox_ended = FALSE

Init ==
    /\ ControllerInit /\ SessionLoggedIn /\ PredicateIdle
    /\ TimingIdle /\ FlagsIdle


\* ----------------------------------------------------- remote sandbox
\* the remote sandbox moves between the steps of a call and between calls;
\* the execution poll does not read the sandbox, so the sandbox's steps
\* are ordered before or after it
SandboxMayStep == pc # "done" /\ ctl # "run_sandbox_command"

\* sandbox state progression on the server
RemoteAdvance ==
    /\ SandboxMayStep
    /\ \/ sbState = "BeforeSetup" /\ sbState' = "Setup"
       \/ sbState = "Setup" /\ sbState' \in get_active_states
       \/ sbState \in get_active_states /\ stopPending /\ sbState' = "Teardown"
       \/ sbState = "Teardown" /\ sbState' = "Ended"
    /\ stopPending' = IF sbState' = "Teardown" THEN FALSE ELSE stopPending
    /\ UNCHANGED <<events, exStatus, fieldVars, callVars, scopeVars, obsVars>>
    /\ UNCHANGED <<fetchErrors, otherVars>>

\* the reservation is ended from outside (its time is over, or another user
\* ends it) while its setup runs: the states Teardown and Ended are among
\* the states a setup poll stops at
RemoteEndedOutside ==
    /\ SandboxMayStep
    /\ sbState = "Setup" /\ sbState' = "Teardown"
    /\ UNCHANGED <<events, stopPending, exStatus, fieldVars, callVars,
                   scopeVars, obsVars>>
    /\ UNCHANGED <<fetchErrors, otherVars>>

\* the sandbox writes an activity event; ids are a sequence number
RemoteEmit ==
    /\ SandboxMayStep
    /\ sbState \notin {None, "Ended"}
    /\ Len(events) < MaxEvents
    /\ \E t \in SandboxEventTypes :
          events' = Append(events, [id |-> Len(events) + 1, event_type |-> t])
    /\ UNCHANGED <<sbState, stopPending, exStatus, fieldVars, callVars,
                   scopeVars, obsVars>>
    /\ UNCHANGED <<fetchErrors, otherVars>>

\* progress of the command execution on the server
RemoteExecAdvance ==
    /\ ctl = "run_sandbox_command" /\ pc # "done"
    /\ \/ exStatus = "Pending" /\ exStatus' = "Running"
       \/ exStatus = "Running" /\ exStatus' \in {"Complete", "Failed", "Stopping"}
       \/ exStatus = "Stopping" /\ exStatus' = "Cancelled"
    /\ UNCHANGED <<sbState, events, stopPending, fieldVars, callVars,
                   scopeVars, obsVars>>
    /\ UNCHANGED <<fetchErrors, otherVars>>

\* ------------------------------------------------------- with-statement
\* __exit__ ends with "return self"; an object is truthy
exit_return_truthy == TRUE

\* what the with-statement hands to the surrounding code once __exit__ is
\* over: an exception raised by __exit__ replaces the one of the body; a
\* truthy return value suppresses the exception of the body
WithOutcome(exit_outcome, body_exc) ==
    IF exit_outcome.kind = "raise"
    THEN Raised("with", exit_outcome.exc, exit_outcome.events)
    ELSE IF body_exc # None /\ ~exit_return_truthy
         THEN Raised("with", body_exc, << >>)
         ELSE Returned("with", None)

\* a controller / api method called by the driver or by __enter__ /
\* __exit__ ends with outcome o (a return or a raise)
Finish(o) ==
    /\ ctl' = ctl
    /\ pc' = "done"
    /\ outcome' = o
    /\ bodyExc' = bodyExc
    /\ IF scope = "enter"
       THEN IF o.kind = "raise"
            THEN /\ scope' = "failed"
                 /\ scopeOutcome' = Raised("with", o.exc, o.events)
            ELSE /\ scope' = "body"
                 /\ scopeOutcome' = scopeOutcome
       ELSE IF scope = "exit"
            THEN /\ scope' = "left"
                 /\ scopeOutcome' = WithOutcome(o, bodyExc)
            ELSE /\ scope' = scope
                 /\ scopeOutcome' = scopeOutcome

\* ---------------------------------------------------------- test driver
\* control is back in the driver: the frame of the call is gone
Return ==
    /\ pc = "done"
    /\ ctl' = "idle" /\ pc' = "idle"
    /\ poll_cfg' = NoCfg
    /\ orch' = None
    /\ elapsed' = 0
    /\ fetched' = << >>
    /\ sandbox_details' = None
    /\ latest_event_id' = 0
    /\ stop_response' = None
    /\ apiOutcome' = NoOutcome
    /\ outcome' = NoOutcome
    /\ exStatus' = None     \* the execution id dies with the frame
    /\ fetchErrors' = 0
    /\ UNCHANGED <<sbState, events, stopPending, fieldVars, scopeVars, calls,
                   startCalls, startReturns, stopCalls, exitStopCalls,
                   logged>>
    /\ UNCHANGED otherVars

DriverReady ==
    /\ ctl = "idle"
    /\ calls < MaxCalls
    /\ scope \in {"none", "body", "left", "failed"}

CallLaunch ==
    /\ DriverReady
    /\ ctl' = "launch_sandbox" /\ pc' = "call"
    /\ calls' = calls + 1
    /\ UNCHANGED <<poll_cfg, orch, elapsed, fetched, sandbox_details,
                   latest_event_id, stop_response, apiOutcome, outcome>>
    /\ UNCHANGED <<remoteVars, fieldVars, scopeVars, startCalls,
                   startReturns, stopCalls, exitStopCalls, logged>>
    /\ UNCHANGED <<fetchErrors, otherVars>>

CallTeardown ==
    /\ DriverReady
    /\ ctl' = "teardown_sandbox" /\ pc' = "call"
    /\ calls' = calls + 1
    /\ UNCHANGED <<poll_cfg, orch, elapsed, fetched, sandbox_details,
                   latest_event_id, stop_response, apiOutcome, outcome>>
    /\ UNCHANGED <<remoteVars, fieldVars, scopeVars, startCalls,
                   startReturns, stopCalls, exitStopCalls, logged>>
    /\ UNCHANGED <<fetchErrors, otherVars>>

\* with SandboxControllerContext(...) as c:   -> __enter__
EnterScope ==
    /\ DriverReady /\ scope = "none"
    /\ scope' = "enter"
    /\ ctl' = "launch_sandbox" /\ pc' = "call"
    /\ calls' = calls + 1
    /\ UNCHANGED <<poll_cfg, orch, elapsed, fetched, sandbox_details,
                   latest_event_id, stop_response, apiOutcome, outcome>>
    /\ UNCHANGED <<remoteVars, fieldVars, bodyExc, scopeOutcome, startCalls,
                   startReturns, stopCalls, exitStopCalls, logged>>
    /\ UNCHANGED <<fetchErrors, otherVars>>

\* the body of the with-block ends, normally or by raising -> __exit__
BodyEnds ==
    /\ ctl = "idle" /\ scope = "body"
    /\ \E e \in {None, "BodyError"} : bodyExc' = e
    /\ scope' = "exit"
    /\ ctl' = "teardown_sandbox" /\ pc' = "call"
    /\ UNCHANGED <<poll_cfg, orch, elapsed, fetched, sandbox_details,
                   latest_event_id, stop_response, apiOutcome, outcome>>
    /\ UNCHANGED <<remoteVars, fieldVars, scopeOutcome, calls, startCalls,
                   startReturns, stopCalls, exitStopCalls, logged>>
    /\ UNCHANGED <<fetchErrors, otherVars>>

\* api.run_sandbox_command(sandbox_id, name, polling_execution=True, ...);
\* the method uses no controller field, so the driver runs it as its first
\* call, on a sandbox that exists already
CallRunCommand ==
    /\ DriverReady /\ calls = 0
    /\ sandbox_id # None /\ sbState # None
    /\ ctl' = "run_sandbox_command" /\ pc' = "call"
    /\ calls' = calls + 1
    /\ \E s \in PollSettings : poll_cfg' = s
    /\ UNCHANGED <<orch, elapsed, fetched, sandbox_details, latest_event_id, stop_response,
                   apiOutcome, outcome>>
    /\ UNCHANGED <<remoteVars, fieldVars, scopeVars, startCalls,
                   startReturns, stopCalls, exitStopCalls, logged>>
    /\ UNCHANGED <<fetchErrors, otherVars>>


\* ------------------------------------------- SandboxControllerContext
\* stop_sandbox: "success" not in stop_response.result
stop_result_is_success_always(result) == TRUE

stop_result_is_success_inverted(result) == result # "success"

stop_result_is_success(result) == result = "success"

\* name of the api method that runs the current poll
ApiOp == IF orch = "SETUP" THEN "poll_sandbox_setup" ELSE "poll_sandbox_teardown"

\* the try block of launch_sandbox ends with exception exc raised by
\* poll_sandbox_setup: the except clause, when it matches the exception,
\* stores its events and logs; the exception goes on to the caller
launch_try_raises(exc, error_events) ==
    /\ apiOutcome' = Raised("poll_sandbox_setup", exc, error_events)
    /\ IF launch_except_class \in ExceptionClasses(exc)
       THEN /\ setup_errors' = launch_handler_errors(error_events)
            /\ logged' = logged \cup {"setup FAILED"}
       ELSE UNCHANGED <<setup_errors, logged>>
    /\ Finish(Raised("launch_sandbox", exc, error_events))
    /\ UNCHANGED teardown_errors

\* the try block of teardown_sandbox ends with exception exc raised by
\* api.stop_sandbox (method: stop_sandbox itself or poll_sandbox_teardown)
teardown_try_raises(method, exc, error_events) ==
    /\ apiOutcome' = Raised(method, exc, error_events)
    /\ IF teardown_except_class \in ExceptionClasses(exc)
       THEN /\ teardown_errors' = teardown_handler_errors(error_events)
            /\ logged' = logged \cup {"teardown FAILED"}
       ELSE UNCHANGED <<teardown_errors, logged>>
    /\ Finish(Raised("teardown_sandbox", exc, error_events))
    /\ UNCHANGED setup_errors

\* the poll of the current controller method raises exc
poll_raises(exc) ==
    IF ctl = "launch_sandbox"
    THEN launch_try_raises(exc, << >>)
    ELSE teardown_try_raises(ApiOp, exc, << >>)

\* launch_sandbox up to the start of the setup poll: the guards, the call
\* of api.start_sandbox (which either raises a transport / auth error or
\* returns the new sandbox), the capture of the id
launch_sandbox ==
    /\ ctl = "launch_sandbox" /\ pc = "call"
    /\ IF launch_returns_early(sandbox_id)
       THEN /\ Finish(Returned("launch_sandbox", None))
            /\ UNCHANGED <<remoteVars, fieldVars, poll_cfg, orch, elapsed,
                           fetched, sandbox_details, latest_event_id, stop_response, calls,
                           startCalls, startReturns, stopCalls, exitStopCalls,
                           apiOutcome, logged>>
       ELSE IF ~sandbox_request.present
       THEN /\ Finish(Raised("launch_sandbox", "ValueError", << >>))
            /\ UNCHANGED <<remoteVars, fieldVars, poll_cfg, orch, elapsed,
                           fetched, sandbox_details, latest_event_id, stop_response, calls,
                           startCalls, startReturns, stopCalls, exitStopCalls,
                           apiOutcome, logged>>
       ELSE /\ startCalls' = startCalls + 1
            /\ \/ /\ Finish(Raised("launch_sandbox", "TransportError", << >>))
                  /\ UNCHANGED <<remoteVars, fieldVars, poll_cfg, orch,
                                 elapsed, fetched, sandbox_details,
                                 latest_event_id, stop_response, startReturns>>
               \/ /\ startReturns' = startReturns + 1
                  /\ sbState' = "BeforeSetup"
                  /\ sandbox_id' = "sb1"
                  /\ elapsed' = 0
                  /\ orch' = "SETUP"
                  /\ poll_cfg' =
                        [max_polling_minutes |->
                            sandbox_request.max_polling_minutes,
                         polling_frequency_seconds |->
                            sandbox_request.polling_frequency_seconds]
                  /\ fetched' = << >>
                  /\ pc' = "poll_fetch"
                  /\ UNCHANGED <<events, stopPending, exStatus,
                                 sandbox_request, teardown_settings,
                                 setup_duration_seconds,
                                 teardown_duration_seconds, setup_errors,
                                 teardown_errors, all_components, ctl,
                                 sandbox_details, latest_event_id, stop_response, scopeVars,
                                 outcome>>
            /\ UNCHANGED <<calls, stopCalls, exitStopCalls, apiOutcome,
                           logged>>
    /\ UNCHANGED <<fetchErrors, otherVars>>

\* _poll_orchestration_state, one attempt of the retry loop: fetch the
\* sandbox details; a fetch that raises ends the loop with that error; a
\* value the polling function does not want to retry is returned; else
\* RetryError (-> OrchestrationPollingTimeout) once the delay is used up,
\* else sleep
retry_poll_sandbox_details ==
    /\ ctl \in {"launch_sandbox", "teardown_sandbox"} /\ pc = "poll_fetch"
    /\ \/ /\ fetchErrors' = fetchErrors + 1
          /\ poll_raises("TransportError")
          /\ UNCHANGED <<fetched, sandbox_details>>
       \/ /\ fetched' = Append(fetched, sbState)
          /\ UNCHANGED fetchErrors
          /\ IF retry_if_result(orch, sbState)
             THEN IF stop_after_delay(poll_cfg.max_polling_minutes, elapsed)
                  THEN /\ poll_raises(RetryErrorHandler(ApiOp))
                       /\ UNCHANGED sandbox_details
                  ELSE /\ pc' = "poll_sleep"
                       /\ UNCHANGED <<ctl, sandbox_details, scopeVars,
                                      outcome, apiOutcome, setup_errors,
                                      teardown_errors, logged>>
             ELSE /\ sandbox_details' = sbState
                  /\ pc' = IF orch = "SETUP" THEN "setup_done" ELSE "td_done"
                  /\ UNCHANGED <<ctl, scopeVars, outcome, apiOutcome,
                                 setup_errors, teardown_errors, logged>>
    /\ UNCHANGED <<remoteVars, sandbox_id, sandbox_request, teardown_settings,
                   setup_duration_seconds, teardown_duration_seconds,
                   all_components, poll_cfg, orch, elapsed, latest_event_id, stop_response,
                   calls, startCalls, startReturns, stopCalls, exitStopCalls>>
    /\ UNCHANGED otherVars

\* wait_fixed(polling_frequency_seconds): the sleep between two attempts
wait_fixed ==
    /\ pc = "poll_sleep"
    /\ elapsed' = elapsed + poll_cfg.polling_frequency_seconds
    /\ pc' = "poll_fetch"
    /\ UNCHANGED <<remoteVars, fieldVars, ctl, poll_cfg, orch, fetched,
                   sandbox_details, latest_event_id, stop_response, scopeVars, obsVars>>
    /\ UNCHANGED <<fetchErrors, otherVars>>

\* poll_sandbox_setup after the poll returned, and the rest of
\* launch_sandbox: on state Error the error-only activity is fetched and
\* SetupFailedException raised, which launch_sandbox records, logs and
\* re-raises; otherwise the duration is stored and the components refreshed
poll_sandbox_setup ==
    /\ ctl = "launch_sandbox" /\ pc = "setup_done"
    /\ IF sandbox_details = "Error"
       THEN LET error_activity == get_sandbox_activity(events, TRUE, 0, 0)
                error_events == error_events_or_empty(TRUE, error_activity)
            IN  /\ launch_try_raises("SetupFailedException", error_events)
                /\ UNCHANGED <<setup_duration_seconds, all_components>>
       ELSE /\ apiOutcome' = Returned("poll_sandbox_setup", sandbox_details)
            /\ setup_duration_seconds' = elapsed
            /\ all_components' =
                  refresh_components(all_components, InventoryOf(sbState))
            /\ Finish(Returned("launch_sandbox", None))
            /\ UNCHANGED <<setup_errors, teardown_errors, logged>>
    /\ UNCHANGED <<remoteVars, sandbox_id, sandbox_request, teardown_settings,
                   teardown_duration_seconds, poll_cfg, orch,
                   elapsed, fetched, sandbox_details, latest_event_id, stop_response, calls,
                   startCalls, startReturns, stopCalls, exitStopCalls>>
    /\ UNCHANGED <<fetchErrors, otherVars>>


\* teardown_sandbox up to the start of poll_sandbox_teardown: the guard on
\* sandbox_id, the "already ran" branch (which only writes a debug line),
\* then api.stop_sandbox: the stop request and the check of its result
teardown_sandbox ==
    /\ ctl = "teardown_sandbox" /\ pc = "call"
    /\ IF teardown_returns_early(sandbox_id)
       THEN /\ Finish(Returned("teardown_sandbox", None))
            /\ UNCHANGED <<remoteVars, fieldVars, poll_cfg, orch, elapsed,
                           fetched, sandbox_details, latest_event_id,
                           stop_response, calls, startCalls, startReturns,
                           stopCalls, exitStopCalls, apiOutcome, logged>>
       ELSE /\ stopCalls' = stopCalls + 1
            /\ exitStopCalls' =
                  IF scope = "exit" THEN exitStopCalls + 1 ELSE exitStopCalls
            /\ elapsed' = 0
            /\ \E result \in {"success", "failed"} :
                  /\ stop_response' = result
                  \* the server: an accepted stop is pending until the
                  \* teardown begins
                  /\ stopPending' =
                        IF result = "success"
                        THEN (stopPending \/
                              sbState \in {"BeforeSetup", "Setup", "Ready",
                                           "Error"})
                        ELSE stopPending
                  \* stop_sandbox: the check of the result
                  /\ IF ~stop_result_is_success(result)
                     THEN LET error_events ==
                                  error_events_or_empty(FALSE, << >>)
                          IN  /\ teardown_try_raises(
                                     "stop_sandbox",
                                     "TeardownFailedException", error_events)
                              /\ UNCHANGED <<poll_cfg, orch, fetched>>
                     ELSE /\ orch' = "TEARDOWN"
                          /\ poll_cfg' = teardown_settings
                          /\ fetched' = << >>
                          /\ pc' = "td_watermark"
                          /\ UNCHANGED <<ctl, scopeVars, outcome, apiOutcome,
                                         setup_errors, teardown_errors,
                                         logged>>
            /\ UNCHANGED <<sbState, events, exStatus, sandbox_id,
                           sandbox_request, teardown_settings,
                           setup_duration_seconds, teardown_duration_seconds,
                           all_components, sandbox_details,
                           latest_event_id, calls, startCalls, startReturns>>
    /\ UNCHANGED <<fetchErrors, otherVars>>

\* poll_sandbox_teardown before the poll: the id of the latest activity
\* event (tail=1), 0 if there is none
latest_event_request ==
    /\ ctl = "teardown_sandbox" /\ pc = "td_watermark"
    /\ LET latest == get_sandbox_activity(events, FALSE, 0, 1)
       IN  latest_event_id' = IF latest # << >> THEN latest[1].id ELSE 0
    /\ pc' = "poll_fetch"
    /\ UNCHANGED <<remoteVars, fieldVars, ctl, poll_cfg, orch, elapsed,
                   fetched, sandbox_details, stop_response, scopeVars,
                   obsVars>>
    /\ UNCHANGED <<fetchErrors, otherVars>>

\* poll_sandbox_teardown after the poll returned, and the rest of
\* teardown_sandbox: error-only activity from latest_event_id; if there is
\* any, TeardownFailedException, which teardown_sandbox records, logs and
\* re-raises; otherwise the duration is stored and the components refreshed
poll_sandbox_teardown ==
    /\ ctl = "teardown_sandbox" /\ pc = "td_done"
    /\ LET teardown_error_events ==
               get_sandbox_activity(events, TRUE, latest_event_id, 0)
       IN  IF teardown_error_events # << >>
           THEN LET error_events ==
                        error_events_or_empty(TRUE, teardown_error_events)
                IN  /\ teardown_try_raises("poll_sandbox_teardown",
                                           "TeardownFailedException",
                                           error_events)
                    /\ UNCHANGED <<teardown_duration_seconds, all_components>>
           ELSE /\ apiOutcome' =
                      Returned("poll_sandbox_teardown", sandbox_details)
                /\ teardown_duration_seconds' = elapsed
                /\ all_components' =
                      refresh_components(all_components, InventoryOf(sbState))
                /\ Finish(Returned("teardown_sandbox", None))
                /\ UNCHANGED <<setup_errors, teardown_errors, logged>>
    /\ UNCHANGED <<remoteVars, sandbox_id, sandbox_request, teardown_settings,
                   setup_duration_seconds, poll_cfg, orch,
                   elapsed, fetched, sandbox_details, latest_event_id, stop_response, calls,
                   startCalls, startReturns, stopCalls, exitStopCalls>>
    /\ UNCHANGED <<fetchErrors, otherVars>>

\* ------------------------------------------------- command execution
\* run_sandbox_command: the POST that starts the command on the server
run_sandbox_command ==
    /\ ctl = "run_sandbox_command" /\ pc = "call"
    /\ exStatus' = "Pending"
    /\ elapsed' = 0
    /\ fetched' = << >>
    /\ pc' = "ex_prefetch"
    /\ UNCHANGED <<sbState, events, stopPending, fieldVars, ctl, poll_cfg,
                   orch, sandbox_details, latest_event_id, stop_response, scopeVars, obsVars>>
    /\ UNCHANGED <<fetchErrors, otherVars>>

\* get_execution_details raised: neither poll_command_execution nor
\* run_sandbox_command catches it
execution_fetch_raises ==
    /\ fetchErrors' = fetchErrors + 1
    /\ apiOutcome' = Raised("poll_command_execution", "TransportError", << >>)
    /\ Finish(Raised("run_sandbox_command", "TransportError", << >>))
    /\ UNCHANGED fetched

\* poll_command_execution: the fetch made before the retry loop
pre_poll_execution_details ==
    /\ ctl = "run_sandbox_command" /\ pc = "ex_prefetch"
    /\ \/ execution_fetch_raises
       \/ /\ pc' = "ex_fetch"
          /\ UNCHANGED <<ctl, fetched, scopeVars, outcome, apiOutcome,
                         fetchErrors>>
    /\ UNCHANGED <<remoteVars, fieldVars, poll_cfg, orch, elapsed,
                   sandbox_details, latest_event_id, stop_response, calls, startCalls,
                   startReturns, stopCalls, exitStopCalls, logged>>
    /\ UNCHANGED otherVars

\* poll_command_execution, one attempt of the retry loop; a fetch that
\* raises ends the loop with that error; the value the loop returns is
\* returned as it is, whatever its status
retry_poll_execution ==
    /\ ctl = "run_sandbox_command" /\ pc = "ex_fetch"
    /\ \/ execution_fetch_raises
       \/ /\ fetched' = Append(fetched, exStatus)
          /\ UNCHANGED fetchErrors
          /\ IF _should_keep_polling_execution(exStatus)
             THEN IF stop_after_delay(poll_cfg.max_polling_minutes, elapsed)
                  THEN /\ apiOutcome' =
                            Raised("poll_command_execution",
                                   RetryErrorHandler("poll_command_execution"),
                                   << >>)
                       /\ Finish(Raised("run_sandbox_command",
                                        RetryErrorHandler(
                                            "poll_command_execution"),
                                        << >>))
                  ELSE /\ pc' = "ex_sleep"
                       /\ UNCHANGED <<ctl, scopeVars, outcome, apiOutcome>>
             ELSE /\ apiOutcome' = Returned("poll_command_execution", exStatus)
                  /\ Finish(Returned("run_sandbox_command", exStatus))
    /\ UNCHANGED <<remoteVars, fieldVars, poll_cfg, orch, elapsed,
                   sandbox_details, latest_event_id, stop_response, calls, startCalls,
                   startReturns, stopCalls, exitStopCalls, logged>>
    /\ UNCHANGED otherVars

\* wait_fixed(polling_frequency_seconds) of the execution poll
wait_fixed_execution ==
    /\ pc = "ex_sleep"
    /\ elapsed' = elapsed + poll_cfg.polling_frequency_seconds
    /\ pc' = "ex_fetch"
    /\ UNCHANGED <<remoteVars, fieldVars, ctl, poll_cfg, orch, fetched,
                   sandbox_details, latest_event_id, stop_response, scopeVars, obsVars>>
    /\ UNCHANGED <<fetchErrors, otherVars>>

\* ------------------------------- helpers/polling_helpers.py (retrying)
\* poll_sandbox_setup / poll_sandbox_teardown of polling_helpers.py
HelpersOp ==
    IF orch = "SETUP" THEN "helpers.poll_sandbox_setup"
    ELSE "helpers.poll_sandbox_teardown"

\* the driver polls an existing sandbox with polling_helpers.py, as its
\* first call
CallHelpersPoll ==
    /\ DriverReady /\ calls = 0
    /\ sandbox_id # None /\ sbState # None
    /\ ctl' = "_poll_sandbox_state" /\ pc' = "rt_fetch"
    /\ calls' = calls + 1
    /\ \E s \in PollSettings : poll_cfg' = s
    /\ \E o \in {"SETUP", "TEARDOWN"} : orch' = o
    /\ UNCHANGED <<elapsed, fetched, sandbox_details, latest_event_id, stop_response,
                   apiOutcome, outcome>>
    /\ UNCHANGED <<remoteVars, fieldVars, scopeVars, startCalls,
                   startReturns, stopCalls, exitStopCalls, logged>>
    /\ UNCHANGED <<fetchErrors, otherVars>>

\* _poll_sandbox_state, one attempt of the retrying loop: the attempt
\* raises or returns the sandbox details; an attempt that is not rejected
\* is returned; a rejected one ends the loop once stop_max_delay is used
\* up (the exception of the attempt if it raised, else RetryError ->
\* OrchestrationPollingTimeout), else the loop sleeps
_poll_sandbox_state ==
    /\ ctl = "_poll_sandbox_state" /\ pc = "rt_fetch"
    /\ \E has_exception \in BOOLEAN :
          /\ fetched' = IF has_exception THEN fetched
                        ELSE Append(fetched, sbState)
          /\ fetchErrors' = IF has_exception THEN fetchErrors + 1
                            ELSE fetchErrors
          /\ IF ~should_reject(has_exception,
                               helpers_polling_func(orch, sbState))
             THEN Finish(Returned(HelpersOp, sbState))
             ELSE IF stop_max_delay(poll_cfg.max_polling_minutes,
                                    elapsed * 1000)
                  THEN IF has_exception
                       THEN Finish(Raised(HelpersOp, "TransportError", << >>))
                       ELSE Finish(Raised(HelpersOp,
                                          "OrchestrationPollingTimeout",
                                          << >>))
                  ELSE /\ pc' = "rt_sleep"
                       /\ UNCHANGED <<ctl, scopeVars, outcome>>
    /\ UNCHANGED <<remoteVars, fieldVars, poll_cfg, orch, elapsed,
                   sandbox_details, latest_event_id, stop_response, calls, startCalls,
                   startReturns, stopCalls, exitStopCalls, apiOutcome, logged>>
    /\ UNCHANGED otherVars

\* the sleep of the retrying loop, wait_fixed milliseconds
retrying_sleep ==
    /\ pc = "rt_sleep"
    /\ elapsed' =
          elapsed + retrying_wait_fixed(poll_cfg.polling_frequency_seconds)
                       \div 1000
    /\ pc' = "rt_fetch"
    /\ UNCHANGED <<remoteVars, fieldVars, ctl, poll_cfg, orch, fetched,
                   sandbox_details, latest_event_id, stop_response, scopeVars, obsVars,
                   fetchErrors>>
    /\ UNCHANGED otherVars

\* ------------------------------------------------------ specification
Next ==
    \/ RemoteAdvance
    \/ RemoteEmit
    \/ RemoteExecAdvance
    \/ CallLaunch
    \/ CallTeardown
    \/ EnterScope
    \/ BodyEnds
    \/ CallRunCommand
    \/ Return
    \/ launch_sandbox
    \/ retry_poll_sandbox_details
    \/ wait_fixed
    \/ poll_sandbox_setup
    \/ teardown_sandbox
    \/ latest_event_request
    \/ poll_sandbox_teardown
    \/ run_sandbox_command
    \/ pre_poll_execution_details
    \/ retry_poll_execution
    \/ wait_fixed_execution
    \/ CallHelpersPoll
    \/ _poll_sandbox_state
    \/ retrying_sleep

Spec == Init /\ [][Next]_vars


\* ------------------------------------------ the parts taken on their own
controllerVars ==
    <<remoteVars, fieldVars, callVars, scopeVars, obsVars, fetchErrors>>

\* a controller attached to a Ready sandbox, on which nothing is called
ControllerIdle ==
    /\ ControllerInit
    /\ sandbox_id = "sb1" /\ sbState = "Ready"
    /\ teardown_settings.polling_frequency_seconds = 30

\* ------------------------------------------------- polling predicates
\* a polling predicate is handed the details of a sandbox in any state of
\* model.SandboxStates, or of an execution in any status of
\* model.CommandExecutionStates
PredicateInit ==
    /\ ControllerIdle /\ SessionLoggedIn /\ TimingIdle /\ FlagsIdle
    /\ state_arg \in SandboxStates
    /\ status_arg \in CommandExecutionStates
    /\ verdict = NoVerdict

Verdict(p, r) == [predicate |-> p, result |-> r]

apply_should_keep_polling_setup ==
    /\ verdict = NoVerdict
    /\ verdict' = Verdict("_should_keep_polling_setup",
                          _should_keep_polling_setup(state_arg))
    /\ UNCHANGED <<controllerVars, timingVars, flagVars, sessionVars, state_arg, status_arg>>

apply_polling_should_keep_polling_setup ==
    /\ verdict = NoVerdict
    /\ verdict' = Verdict("polling._should_keep_polling_setup",
                          polling_should_keep_polling_setup(state_arg))
    /\ UNCHANGED <<controllerVars, timingVars, flagVars, sessionVars, state_arg, status_arg>>

apply_should_keep_polling_teardown ==
    /\ verdict = NoVerdict
    /\ verdict' = Verdict("_should_keep_polling_teardown",
                          _should_keep_polling_teardown(state_arg))
    /\ UNCHANGED <<controllerVars, timingVars, flagVars, sessionVars, state_arg, status_arg>>

apply_should_keep_polling_execution ==
    /\ verdict = NoVerdict
    /\ verdict' = Verdict("_should_keep_polling_execution",
                          _should_keep_polling_execution(status_arg))
    /\ UNCHANGED <<controllerVars, timingVars, flagVars, sessionVars, state_arg, status_arg>>

PredicateNext ==
    \/ apply_should_keep_polling_setup
    \/ apply_polling_should_keep_polling_setup
    \/ apply_should_keep_polling_teardown
    \/ apply_should_keep_polling_execution

PredicateSpec == PredicateInit /\ [][PredicateNext]_vars

\* -------------------------------------------------------------- session
Clients == {"SandboxRestApiSession", "SandboxRestApiClient"}

SessionReturned(method) == [method |-> method, kind |-> "return", exc |-> None]
SessionRaised(method, exc) == [method |-> method, kind |-> "raise", exc |-> exc]

\* the session after construction: SandboxRestApiSession.__init__ is given
\* a username and password, a token, or both, and logs in;
\* SandboxRestApiClient.__init__ is given a username and password and
\* fetches a token
SessionInit ==
    /\ ControllerIdle /\ PredicateIdle /\ TimingIdle /\ FlagsIdle
    /\ client \in Clients
    /\ user_password \in
          (IF client = "SandboxRestApiClient" THEN {TRUE} ELSE BOOLEAN)
    /\ token = 1
    /\ Authorization = BasicHeader(1)
    /\ serverTokens = {1}
    /\ issued = 1
    /\ requests = 0
    /\ response = NoResponse

\* _get_token_with_credentials / get_token_with_credentials: the login
\* request; the server issues a fresh token
get_token_with_credentials ==
    /\ issued < MaxTokens /\ requests < MaxRequests
    /\ issued' = issued + 1
    /\ serverTokens' = serverTokens \cup {issued + 1}
    /\ token' = issued + 1
    /\ requests' = requests + 1

\* the DELETE of a token: the server drops the token, or the request fails
delete_token(ok) ==
    /\ requests < MaxRequests
    /\ requests' = requests + 1
    /\ serverTokens' = IF ok THEN serverTokens \ {token} ELSE serverTokens

\* SandboxRestApiSession.login() with no argument: the stored token is
\* kept; without one a token is fetched with the stored username and
\* password; the Authorization header is set
login ==
    /\ client = "SandboxRestApiSession"
    /\ IF token = NoToken
       THEN IF ~user_password
            THEN /\ response' = SessionRaised("login", "ValueError")
                 /\ UNCHANGED <<token, Authorization, serverTokens, issued,
                                requests>>
            ELSE /\ get_token_with_credentials
                 /\ Authorization' = BasicHeader(token')
                 /\ response' = SessionReturned("login")
       ELSE /\ Authorization' = BasicHeader(token)
            /\ response' = SessionReturned("login")
            /\ UNCHANGED <<token, serverTokens, issued, requests>>
    /\ UNCHANGED <<client, user_password, controllerVars, timingVars, flagVars, predicateVars>>

\* SandboxRestApiSession.logout(): nothing without a token; else
\* delete_token (which checks the header), then the token and the header
\* are dropped
logout ==
    /\ client = "SandboxRestApiSession"
    /\ IF token = NoToken
       THEN /\ response' = SessionReturned("logout")
            /\ UNCHANGED <<token, Authorization, serverTokens, requests>>
       ELSE IF validate_auth_header_raises(Authorization)
       THEN /\ response' = SessionRaised("logout", "SandboxRestAuthException")
            /\ UNCHANGED <<token, Authorization, serverTokens, requests>>
       ELSE \E ok \in BOOLEAN :
               /\ delete_token(ok)
               /\ IF ok
                  THEN /\ token' = NoToken
                       /\ Authorization' = NoHeader
                       /\ response' = SessionReturned("logout")
                  ELSE /\ response' = SessionRaised("logout", "TransportError")
                       /\ UNCHANGED <<token, Authorization>>
    /\ UNCHANGED <<client, user_password, issued, controllerVars, timingVars, flagVars,
                   predicateVars>>

\* SandboxRestApiClient.refresh_auth(): a token is fetched with the stored
\* username and password and the headers are rebuilt
refresh_auth ==
    /\ client = "SandboxRestApiClient"
    /\ get_token_with_credentials
    /\ Authorization' = BasicHeader(token')
    /\ response' = SessionReturned("refresh_auth")
    /\ UNCHANGED <<client, user_password, controllerVars, timingVars, flagVars, predicateVars>>

\* SandboxRestApiClient.invalidate_auth(): invalidate_target_token (which
\* checks the headers and raises when the DELETE is not ok), then the
\* headers are dropped; auth_token keeps its value
invalidate_auth ==
    /\ client = "SandboxRestApiClient"
    /\ IF validate_auth_header_raises(Authorization)
       THEN /\ response' =
                  SessionRaised("invalidate_auth", "SandboxRestAuthException")
            /\ UNCHANGED <<Authorization, serverTokens, requests>>
       ELSE \E ok \in BOOLEAN :
               /\ delete_token(ok)
               /\ IF ok
                  THEN /\ Authorization' = NoHeader
                       /\ response' = SessionReturned("invalidate_auth")
                  ELSE /\ response' =
                             SessionRaised("invalidate_auth",
                                           "SandboxRestException")
                       /\ UNCHANGED Authorization
    /\ UNCHANGED <<client, user_password, token, issued, controllerVars, timingVars, flagVars,
                   predicateVars>>

\* an api method (get_blueprints): the header check, then the request,
\* which the server answers when it carries a token the server accepts
get_blueprints ==
    /\ IF validate_auth_header_raises(Authorization)
       THEN /\ response' =
                  SessionRaised("get_blueprints", "SandboxRestAuthException")
            /\ UNCHANGED requests
       ELSE /\ requests < MaxRequests
            /\ requests' = requests + 1
            /\ response' =
                  IF Authorization.present
                     /\ Authorization.token \in serverTokens
                  THEN SessionReturned("get_blueprints")
                  ELSE SessionRaised("get_blueprints", "SandboxRestException")
    /\ UNCHANGED <<client, user_password, token, Authorization, serverTokens,
                   issued, controllerVars, timingVars, flagVars, predicateVars>>

SessionNext ==
    \/ login
    \/ logout
    \/ refresh_auth
    \/ invalidate_auth
    \/ get_blueprints

SessionSpec == SessionInit /\ [][SessionNext]_vars

\* ------------------------------------------- reservation ended outside
\* the controller and its polls, with a reservation that can be ended from
\* outside while its setup runs
OutsideNext ==
    \/ Next
    \/ RemoteEndedOutside

OutsideSpec == Init /\ [][OutsideNext]_vars

\* ---------------------------------------------------- teardown on its own
\* teardown_sandbox is called on a controller attached to a Ready sandbox
\* whose activity feed is empty, and the sandbox writes events only once
\* the stop request was accepted: every event of the feed was written
\* after the stop request of the first call
TeardownInit ==
    /\ Init
    /\ sandbox_id = "sb1" /\ sbState = "Ready"

RemoteEmitAfterStop ==
    /\ stop_response = "success"
    /\ RemoteEmit

TeardownNext ==
    \/ RemoteAdvance
    \/ RemoteEmitAfterStop
    \/ CallTeardown
    \/ teardown_sandbox
    \/ latest_event_request
    \/ retry_poll_sandbox_details
    \/ wait_fixed
    \/ poll_sandbox_teardown
    \/ Return

TeardownSpec == TeardownInit /\ [][TeardownNext]_vars

\* --------------------------------------------------------- retry settings
\* what a poll called with (max_polling_minutes, polling_frequency_seconds)
\* hands to its retry library, as the seconds the library then waits
\* between two attempts and the seconds after which it stops.  tenacity
\* (api.py, polling.py) reads wait_fixed and stop_after_delay in seconds;
\* retrying (helpers/polling_helpers.py) reads wait_fixed and stop_max_delay
\* in milliseconds
Settings(variant, wait_seconds, timeout_seconds) ==
    [variant |-> variant, wait_seconds |-> wait_seconds,
     timeout_seconds |-> timeout_seconds]

\* api.py _poll_orchestration_state:
\* wait_fixed(polling_frequency_seconds), stop_after_delay(minutes * 60)
api_retry_settings(max_polling_minutes, polling_frequency_seconds) ==
    Settings("api._poll_orchestration_state",
             polling_frequency_seconds,
             max_polling_minutes * 60)

\* api.py poll_command_execution: the same arguments
api_execution_retry_settings(max_polling_minutes, polling_frequency_seconds) ==
    Settings("api.poll_command_execution",
             polling_frequency_seconds,
             max_polling_minutes * 60)

\* polling.py _poll_orchestration_state:
\* wait_fixed(polling_frequency_seconds * 1000),
\* stop_after_delay(max_polling_minutes * 60000)
polling_retry_settings(max_polling_minutes, polling_frequency_seconds) ==
    Settings("polling._poll_orchestration_state",
             polling_frequency_seconds * 1000,
             max_polling_minutes * 60000)

\* polling.py poll_execution:
\* wait_fixed(polling_frequency_in_seconds), stop_after_delay(minutes * 60)
polling_execution_retry_settings(max_polling_minutes, polling_frequency_seconds) ==
    Settings("polling.poll_execution",
             polling_frequency_seconds,
             max_polling_minutes * 60)

\* helpers/polling_helpers.py _poll_sandbox_state, retrying's milliseconds
helpers_retry_settings(max_polling_minutes, polling_frequency_seconds) ==
    Settings("helpers._poll_sandbox_state",
             retrying_wait_fixed(polling_frequency_seconds) \div 1000,
             (max_polling_minutes * 60000) \div 1000)

\* a poll is called on its own with any of the arguments
TimingInit ==
    /\ ControllerIdle /\ SessionLoggedIn /\ PredicateIdle /\ FlagsIdle
    /\ minutes_arg \in 1..MaxArgMinutes
    /\ seconds_arg \in ArgSeconds
    /\ retry_settings = NoSettings

apply_api_retry_settings ==
    /\ retry_settings = NoSettings
    /\ retry_settings' = api_retry_settings(minutes_arg, seconds_arg)
    /\ UNCHANGED <<controllerVars, sessionVars, predicateVars, flagVars,
                   minutes_arg, seconds_arg>>

apply_api_execution_retry_settings ==
    /\ retry_settings = NoSettings
    /\ retry_settings' = api_execution_retry_settings(minutes_arg, seconds_arg)
    /\ UNCHANGED <<controllerVars, sessionVars, predicateVars, flagVars,
                   minutes_arg, seconds_arg>>

apply_polling_retry_settings ==
    /\ retry_settings = NoSettings
    /\ retry_settings' = polling_retry_settings(minutes_arg, seconds_arg)
    /\ UNCHANGED <<controllerVars, sessionVars, predicateVars, flagVars,
                   minutes_arg, seconds_arg>>

apply_polling_execution_retry_settings ==
    /\ retry_settings = NoSettings
    /\ retry_settings' =
          polling_execution_retry_settings(minutes_arg, seconds_arg)
    /\ UNCHANGED <<controllerVars, sessionVars, predicateVars, flagVars,
                   minutes_arg, seconds_arg>>

apply_helpers_retry_settings ==
    /\ retry_settings = NoSettings
    /\ retry_settings' = helpers_retry_settings(minutes_arg, seconds_arg)
    /\ UNCHANGED <<controllerVars, sessionVars, predicateVars, flagVars,
                   minutes_arg, seconds_arg>>

TimingNext ==
    \/ apply_api_retry_settings
    \/ apply_api_execution_retry_settings
    \/ apply_polling_retry_settings
    \/ apply_polling_execution_retry_settings
    \/ apply_helpers_retry_settings

TimingSpec == TimingInit /\ [][TimingNext]_vars

\* ------------------------------------------------- SandboxRestController
\* sandbox_controller.py, on top of helpers/polling_helpers.py.  In this
\* specification sandbox_id, setup_errors, teardown_errors and
\* all_components are the fields of a SandboxRestController,
\* sandbox_details is the sandbox state its last get_sandbox_details read,
\* and outcome is the outcome of its last method

\* polling_helpers.SandboxStates
HelpersSandboxStates ==
    {"BeforeSetup", "Setup", "Error", "Ready", "Teardown", "Ended"}
SANDBOX_SETUP_STATES == {"BeforeSetup", "Setup"}
SANDBOX_ACTIVE_STATES == {"Ready", "Error"}

Flags(finished, ended) == [setup_finished |-> finished, sandbox_ended |-> ended]

\* update_state_flags: "if state not in SANDBOX_SETUP_STATES: setup_finished
\* = True / elif state not in SANDBOX_ACTIVE_STATES: sandbox_ended = True"
update_state_flags_of(sandbox_state, flags) ==
    IF sandbox_state \notin SANDBOX_SETUP_STATES
    THEN [flags EXCEPT !.setup_finished = TRUE]
    ELSE IF sandbox_state \notin SANDBOX_ACTIVE_STATES
         THEN [flags EXCEPT !.sandbox_ended = TRUE]
         ELSE flags

\* a start guard that lets every controller start
start_rejected_never(id) == FALSE

\* start_sandbox_and_poll: "if self.sandbox_id: raise ValueError"
start_rejected(id) == id # None

\* stop_sandbox_and_poll: "if self.sandbox_ended: raise ValueError"
stop_rejected(ended) == ended

\* SandboxRestController.__init__: without a sandbox id the flags are
\* False and nothing is fetched; with the id of an existing sandbox (in
\* any state) the components and the state flags are fetched
RestControllerInit ==
    /\ SessionLoggedIn /\ PredicateIdle /\ TimingIdle
    /\ \/ /\ sandbox_id = None
          /\ sbState = None
          /\ sandbox_details = None
          /\ events = << >>
          /\ all_components = {}
          /\ setup_finished = FALSE
          /\ sandbox_ended = FALSE
       \/ /\ sandbox_id = "sb1"
          /\ sbState \in HelpersSandboxStates
          /\ sandbox_details = sbState
          /\ events = IF sbState = "Error" THEN <<SetupError>> ELSE << >>
          /\ all_components =
                refresh_components({}, InventoryOf(sbState))
          /\ LET flags == update_state_flags_of(sbState, Flags(FALSE, FALSE))
             IN  /\ setup_finished = flags.setup_finished
                 /\ sandbox_ended = flags.sandbox_ended
    /\ sandbox_request = NoRequest
    /\ teardown_settings = NoCfg
    /\ stopPending = FALSE
    /\ exStatus = None
    /\ setup_duration_seconds = NoDuration
    /\ teardown_duration_seconds = NoDuration
    /\ setup_errors = NoErrors
    /\ teardown_errors = NoErrors
    /\ ctl = "idle" /\ pc = "idle"
    /\ poll_cfg = NoCfg
    /\ orch = None
    /\ elapsed = 0
    /\ fetched = << >>
    /\ latest_event_id = 0
    /\ stop_response = None
    /\ scope = "none" /\ bodyExc = None /\ scopeOutcome = NoOutcome
    /\ calls = 0 /\ startCalls = 0 /\ startReturns = 0
    /\ stopCalls = 0 /\ exitStopCalls = 0
    /\ apiOutcome = NoOutcome /\ outcome = NoOutcome
    /\ logged = {}
    /\ fetchErrors = 0

\* what no method of SandboxRestController writes
RestControllerFrame ==
    UNCHANGED <<stopPending, exStatus, sandbox_request, teardown_settings,
                setup_duration_seconds, teardown_duration_seconds,
                teardown_errors, ctl, pc, poll_cfg, orch, elapsed, fetched,
                latest_event_id, stop_response, scopeVars, startReturns,
                exitStopCalls, apiOutcome, logged, fetchErrors, sessionVars,
                predicateVars, timingVars>>

\* update_state_flags(): the flags follow the state just read; a flag
\* that is set stays set
update_state_flags ==
    /\ calls < MaxCalls /\ sandbox_id # None
    /\ calls' = calls + 1
    /\ sandbox_details' = sbState
    /\ LET flags ==
               update_state_flags_of(sbState,
                                     Flags(setup_finished, sandbox_ended))
       IN  /\ setup_finished' = flags.setup_finished
           /\ sandbox_ended' = flags.sandbox_ended
    /\ outcome' = Returned("update_state_flags", None)
    /\ UNCHANGED <<sbState, events, sandbox_id, setup_errors, all_components,
                   startCalls, stopCalls>>
    /\ RestControllerFrame

\* start_sandbox_and_poll(blueprint_id, ..., raise_setup_exception): the
\* guard, api.start_sandbox (which may raise), the capture of the id,
\* poll_sandbox_setup of polling_helpers.py (which raises on a timeout or
\* returns the details of a sandbox that is not in a setup state), the
\* refresh of the components, the flags, the activity errors of a failed
\* setup and SandboxSetupError
start_sandbox_and_poll ==
    /\ calls < MaxCalls
    /\ calls' = calls + 1
    /\ \E raise_setup_exception \in BOOLEAN :
       IF start_rejected(sandbox_id)
       THEN /\ outcome' = Raised("start_sandbox_and_poll", "ValueError", << >>)
            /\ UNCHANGED <<sbState, events, sandbox_id, sandbox_details,
                           setup_errors, all_components, flagVars,
                           startCalls>>
       ELSE /\ startCalls' = startCalls + 1
            /\ \/ /\ outcome' = Raised("start_sandbox_and_poll",
                                       "SandboxRestException", << >>)
                  /\ UNCHANGED <<sbState, events, sandbox_id, sandbox_details,
                                 setup_errors, all_components, flagVars>>
               \/ /\ sandbox_id' = "sb1"
                  /\ \/ /\ sbState' \in SANDBOX_SETUP_STATES
                        /\ outcome' =
                              Raised("start_sandbox_and_poll",
                                     "OrchestrationPollingTimeout", << >>)
                        /\ UNCHANGED <<events, sandbox_details, setup_errors,
                                       all_components, flagVars>>
                     \/ /\ sbState' \in HelpersSandboxStates
                        /\ ~helpers_polling_func("SETUP", sbState')
                        /\ sandbox_details' = sbState'
                        /\ events' \in
                              (IF sbState' = "Error"
                               THEN {<< >>, <<SetupError>>} ELSE {<< >>})
                        /\ all_components' =
                              refresh_components(all_components,
                                                 InventoryOf(sbState'))
                        /\ setup_finished' =
                              (setup_finished \/ sbState' \in {"Ready", "Error"})
                        /\ UNCHANGED sandbox_ended
                        /\ LET activity_errors ==
                                   get_sandbox_activity(events', TRUE, 0, 0)
                           IN  /\ setup_errors' =
                                     IF sbState' = "Error"
                                          /\ activity_errors # << >>
                                     THEN SomeErrors(activity_errors)
                                     ELSE setup_errors
                               /\ outcome' =
                                     IF sbState' = "Error"
                                          /\ raise_setup_exception
                                     THEN Raised("start_sandbox_and_poll",
                                                 "SandboxSetupError", << >>)
                                     ELSE Returned("start_sandbox_and_poll",
                                                   sbState')
    /\ UNCHANGED stopCalls
    /\ RestControllerFrame

\* stop_sandbox_and_poll(sandbox_id, ...): the guard; then the id of the
\* last activity event, read as
\* get_sandbox_activity(self.sandbox_id, tail=1)["events"]["id"]: the
\* request may fail (SandboxRestException), and "events" is a list, which
\* a string does not index (TypeError), so the method ends before it
\* calls api.stop_sandbox
stop_sandbox_and_poll ==
    /\ calls < MaxCalls
    /\ calls' = calls + 1
    /\ IF stop_rejected(sandbox_ended)
       THEN outcome' = Raised("stop_sandbox_and_poll", "ValueError", << >>)
       ELSE \E exc \in {"SandboxRestException", "TypeError"} :
               outcome' = Raised("stop_sandbox_and_poll", exc, << >>)
    /\ UNCHANGED <<sbState, events, sandbox_id, sandbox_details, setup_errors,
                   all_components, flagVars, startCalls, stopCalls>>
    /\ RestControllerFrame

RestControllerNext ==
    \/ RemoteAdvance
    \/ RemoteEmit
    \/ update_state_flags
    \/ start_sandbox_and_poll
    \/ stop_sandbox_and_poll

RestControllerSpec == RestControllerInit /\ [][RestControllerNext]_vars


\* ===================================================== properties
Deadline == poll_cfg.max_polling_minutes * SecondsPerMinute
Interval == poll_cfg.polling_frequency_seconds
AllInProgressSandbox ==
    \A i \in 1..Len(fetched) : polling_func(orch, fetched[i])
AllInProgressExecution ==
    \A i \in 1..Len(fetched) : _should_keep_polling_execution(fetched[i])
\* a value was fetched at or after the deadline
FetchedAtDeadline ==
    /\ Len(fetched) >= 1
    /\ (Len(fetched) - 1) * Interval = elapsed
    /\ elapsed >= Deadline

\* C1: once teardown_duration_seconds is recorded, no call of
\* teardown_sandbox (and no other step) sends another stop request.
C1_TeardownIdempotent ==
    [][teardown_duration_seconds # NoDuration => stopCalls' = stopCalls]_vars

\* C2 as stated: a launch on a controller that has a sandbox_id returns
\* without start_sandbox and without a setup poll, and at most one
\* start_sandbox call is ever made.
C2_LaunchIdempotentAsStated ==
    [][/\ (ctl = "launch_sandbox" /\ pc = "call" /\ sandbox_id # None
              /\ pc' # pc)
          => (pc' = "done" /\ outcome' = Returned("launch_sandbox", None)
              /\ startCalls' = startCalls /\ fetched' = << >>)
       /\ startCalls' <= 1]_vars

\* C2 amended: a launch on a controller that has a sandbox_id returns
\* without start_sandbox and without a setup poll; no start_sandbox call is
\* made once an id is held, and at most one start_sandbox call returns.
C2_LaunchIdempotent ==
    [][/\ (ctl = "launch_sandbox" /\ pc = "call" /\ sandbox_id # None
              /\ pc' # pc)
          => (pc' = "done" /\ outcome' = Returned("launch_sandbox", None)
              /\ fetched' = << >>)
       /\ (sandbox_id # None => startCalls' = startCalls)
       /\ startReturns' <= 1]_vars

\* a second launch after a failed setup has returned without a poll
C2_Witness ==
    /\ pc = "done" /\ outcome = Returned("launch_sandbox", None)
    /\ fetched = << >>
    /\ ~setup_errors.isNone
    /\ startCalls = 1

\* C3: the events of a TeardownFailedException raised by
\* poll_sandbox_teardown all have an id above the watermark, which is the
\* id of the latest event when the poll began; with no error event above
\* the watermark the snapshot is returned.
C3_TeardownWatermark ==
    (pc = "done" /\ apiOutcome.op = "poll_sandbox_teardown"
        /\ sandbox_details # None)
    => LET above(e) == e.id > latest_event_id
       IN  /\ \A i \in 1..Len(apiOutcome.events) : above(apiOutcome.events[i])
           /\ (SelectSeq(SelectSeq(events, IsError), above) = << >>
                  => apiOutcome.kind = "return")

\* C4: when control has left the with-block through __exit__, however the
\* body ended, __exit__ has sent a stop request for the sandbox.
C4_ExitTearsDown ==
    (scope = "left" /\ sandbox_id # None) => exitStopCalls >= 1

\* the body raised and __exit__ sent the stop request
C4_Witness ==
    scope = "left" /\ bodyExc = "BodyError" /\ exitStopCalls = 1
    /\ sandbox_id # None

\* C5: a TeardownFailedException raised in __exit__ after the body raised
\* leaves the body's exception as what the caller observes, with the
\* teardown failure stored and logged.
C5_ExitKeepsBodyException ==
    (pc = "done" /\ scope = "left" /\ bodyExc # None
        /\ outcome.exc = "TeardownFailedException")
    => /\ scopeOutcome.kind = "raise" /\ scopeOutcome.exc = bodyExc
       /\ ~teardown_errors.isNone
       /\ "teardown FAILED" \in logged

\* C6: a poll of an execution that stops with status Failed raises
\* CommandExecutionFailed; with any other stopping status it returns the
\* details.
C6_FailedExecutionRaises ==
    (pc = "done" /\ apiOutcome.op = "poll_command_execution"
        /\ ~AllInProgressExecution)
    => IF fetched[Len(fetched)] = "Failed"
       THEN apiOutcome.kind = "raise"
            /\ apiOutcome.exc = "CommandExecutionFailed"
       ELSE apiOutcome = Returned("poll_command_execution",
                                  fetched[Len(fetched)])

\* C7: a poll never lasts longer than max_polling_minutes * 60 +
\* polling_frequency_seconds, a sleep starts only before the deadline, and
\* every fetch after the first is preceded by a sleep.
C7_PollTerminates ==
    /\ elapsed <= Deadline + Interval
    /\ (pc \in {"poll_sleep", "ex_sleep"} => elapsed < Deadline)
    /\ (Len(fetched) >= 1 => (Len(fetched) - 1) * Interval <= elapsed)

\* a poll that timed out after the deadline, within the bound
C7_Witness ==
    /\ pc = "done" /\ apiOutcome.kind = "raise"
    /\ apiOutcome.exc \in {"OrchestrationPollingTimeout",
                          "CommandPollingTimeout"}
    /\ elapsed > Deadline

\* C8: a poll whose fetched values are all in progress up to the deadline
\* raises OrchestrationPollingTimeout (setup, teardown) or
\* CommandPollingTimeout (execution).
C8_TimeoutIsDistinct ==
    /\ (pc = "done" /\ ctl \in {"launch_sandbox", "teardown_sandbox"}
           /\ FetchedAtDeadline /\ AllInProgressSandbox)
       => apiOutcome = Raised(ApiOp, "OrchestrationPollingTimeout", << >>)
    /\ (pc = "done" /\ ctl = "run_sandbox_command"
           /\ FetchedAtDeadline /\ AllInProgressExecution)
       => apiOutcome =
             Raised("poll_command_execution", "CommandPollingTimeout", << >>)

\* an execution that stayed Pending or Running timed out
C8_Witness ==
    /\ pc = "done" /\ ctl = "run_sandbox_command"
    /\ FetchedAtDeadline /\ AllInProgressExecution
    /\ apiOutcome.exc = "CommandPollingTimeout"

\* C9: when the setup poll returns a snapshot in state Error,
\* poll_sandbox_setup raises SetupFailedException with exactly the error
\* events of the sandbox's activity, in order.
C9_SetupErrorEvents ==
    (pc = "done" /\ ctl = "launch_sandbox" /\ sandbox_details = "Error")
    => apiOutcome = Raised("poll_sandbox_setup", "SetupFailedException",
                           SelectSeq(events, IsError))

\* setup failed after one Setup fetch, with an error and a success event
C9_Witness ==
    /\ pc = "done" /\ ctl = "launch_sandbox" /\ sandbox_details = "Error"
    /\ fetched = <<"Setup", "Error">>
    /\ Len(apiOutcome.events) = 1 /\ Len(events) = 2

\* C10: when _poll_orchestration_state has returned, the last fetched
\* value is the first one the polling function does not retry, it is the
\* value returned, and the fetches were made one per interval.
C10_FetchCount ==
    (sandbox_details # None)
    => /\ Len(fetched) >= 1
       /\ \A i \in 1..(Len(fetched) - 1) : polling_func(orch, fetched[i])
       /\ ~polling_func(orch, fetched[Len(fetched)])
       /\ sandbox_details = fetched[Len(fetched)]
       /\ (Len(fetched) - 1) * Interval = elapsed

\* the scripted sequence Setup, Setup, Ready
C10_Witness ==
    /\ pc = "setup_done"
    /\ fetched = <<"Setup", "Setup", "Ready">>
    /\ sandbox_details = "Ready"

\* a launch that started a sandbox has not completed its setup
SetupNotCompleted == startReturns >= 1 /\ setup_duration_seconds = NoDuration

C15_TimeoutLeavesErrors ==
    [][/\ (setup_errors' # setup_errors \/ teardown_errors' # teardown_errors)
          => (pc' = "done"
              /\ outcome'.exc \in {"SetupFailedException",
                                   "TeardownFailedException"})
       /\ (pc # "done" /\ pc' = "done"
              /\ apiOutcome'.exc = "OrchestrationPollingTimeout")
          => (outcome' = Raised(ctl, "OrchestrationPollingTimeout", << >>)
              /\ setup_errors' = setup_errors
              /\ teardown_errors' = teardown_errors)]_vars

\* a teardown timed out after a failed setup: the setup errors are kept,
\* no teardown errors are stored
C15_Witness ==
    /\ pc = "done" /\ ctl = "teardown_sandbox"
    /\ outcome.exc = "OrchestrationPollingTimeout"
    /\ Len(setup_errors.events) = 1
    /\ teardown_errors = NoErrors

\* C16: a launch_sandbox that ends with SetupFailedException or
\* OrchestrationPollingTimeout leaves the controller with the sandbox_id;
\* a teardown_sandbox called while the started sandbox has not completed
\* its setup sends a stop request and, unless api.stop_sandbox raises on
\* the result of the request, goes on to poll the teardown.
C16_TeardownAfterFailedSetup ==
    [][/\ (ctl = "launch_sandbox" /\ pc # "done" /\ pc' = "done"
              /\ outcome'.exc \in {"SetupFailedException",
                                   "OrchestrationPollingTimeout"})
          => sandbox_id' = "sb1"
       /\ (ctl = "teardown_sandbox" /\ pc = "call" /\ pc' # "call"
              /\ SetupNotCompleted)
          => /\ sandbox_id = "sb1"
             /\ stopCalls' = stopCalls + 1
             /\ \/ pc' = "td_watermark" /\ orch' = "TEARDOWN"
                \/ pc' = "done" /\ apiOutcome'.op = "stop_sandbox"]_vars

\* the teardown poll is running after a setup that failed
C16_Witness ==
    /\ ctl = "teardown_sandbox" /\ pc = "poll_sleep"
    /\ ~setup_errors.isNone /\ SetupNotCompleted
    /\ stopCalls = 1 /\ fetched = <<"Teardown">>

\* C17: a fetch that raises ends the poll at once: it is the only fetch of
\* the poll that raised, nothing follows it, and the caller sees that
\* error.
C17_FetchFailureFatal ==
    fetchErrors > 0
    => (pc = "done" /\ fetchErrors = 1
        /\ outcome.kind = "raise" /\ outcome.exc = "TransportError")

\* C18: teardown_sandbox on a controller without sandbox_id returns
\* without a call to the api and without changing a field.
C18_TeardownWithoutSandbox ==
    [][(ctl = "teardown_sandbox" /\ pc = "call" /\ sandbox_id = None
           /\ pc' # pc)
       => (pc' = "done" /\ outcome' = Returned("teardown_sandbox", None)
           /\ UNCHANGED <<remoteVars, fieldVars, startCalls, stopCalls,
                          exitStopCalls, fetched, apiOutcome, logged>>)]_vars

\* teardown_sandbox returned on a controller that never got a sandbox
C18_Witness ==
    /\ pc = "done" /\ ctl = "teardown_sandbox" /\ sandbox_id = None
    /\ outcome = Returned("teardown_sandbox", None)
    /\ stopCalls = 0

\* C20 as stated: after launch_sandbox returns normally
\* setup_duration_seconds is set and the cached components are the
\* inventory of the sandbox.
C20_LaunchRecordsAsStated ==
    (pc = "done" /\ ctl = "launch_sandbox" /\ outcome.kind = "return")
    => (setup_duration_seconds # NoDuration
        /\ all_components = InventoryOf(sbState))

\* C20 amended: a launch_sandbox that polled the setup and returns
\* normally sets setup_duration_seconds and replaces the cached components
\* by the inventory of the sandbox at that moment; a launch_sandbox that
\* returns because the controller holds a sandbox_id, or that raises,
\* leaves both as they were.
C20_LaunchRecords ==
    [][(ctl = "launch_sandbox" /\ pc # "done" /\ pc' = "done")
       => IF pc = "setup_done" /\ outcome'.kind = "return"
          THEN /\ setup_duration_seconds' = elapsed
               /\ setup_duration_seconds' # NoDuration
               /\ all_components' = InventoryOf(sbState')
          ELSE /\ pc = "setup_done" => outcome'.kind = "raise"
               /\ setup_duration_seconds' = setup_duration_seconds
               /\ all_components' = all_components]_vars

\* launch_sandbox returned after a setup poll with the inventory cached
C20_Witness ==
    /\ pc = "done" /\ ctl = "launch_sandbox" /\ outcome.kind = "return"
    /\ setup_duration_seconds = 30
    /\ all_components = {"app", "switch"}

C12_ExecutionTeardownPredicates ==
    /\ verdict.predicate = "_should_keep_polling_execution"
       => (verdict.result <=> status_arg \in {"Pending", "Running"})
    /\ verdict.predicate = "_should_keep_polling_teardown"
       => (verdict.result <=> state_arg = "Teardown")

\* the execution predicate was applied to a Stopping execution
C12_Witness ==
    /\ verdict = Verdict("_should_keep_polling_execution", FALSE)
    /\ status_arg = "Stopping"

\* a step of the session made by method m that changed something
SessionStep(m) ==
    /\ response'.method = m
    /\ <<response', requests'>> # <<response, requests>>

\* C19: an api call made while no Authorization header is set raises
\* SandboxRestAuthException and sends no request, and one made with the
\* header set is answered; logout / invalidate_auth that returns leaves no
\* header; login / refresh_auth on a session that stores a username and
\* password sets a header with a token the server accepts.
C19_SessionReset ==
    [][/\ SessionStep("get_blueprints")
          => IF Authorization.present
             THEN /\ response' = SessionReturned("get_blueprints")
                  /\ requests' = requests + 1
             ELSE /\ response' = SessionRaised("get_blueprints",
                                               "SandboxRestAuthException")
                  /\ requests' = requests
       /\ (\E m \in {"logout", "invalidate_auth"} :
              SessionStep(m) /\ response'.kind = "return")
          => ~Authorization'.present
       /\ (\E m \in {"login", "refresh_auth"} :
              SessionStep(m) /\ user_password)
          => /\ response'.kind = "return"
             /\ Authorization'.present
             /\ Authorization'.token \in serverTokens']_vars

\* an api call was answered after the session was reset: the first token
\* is gone from the server and the header carries the second one
C19_Witness ==
    /\ response = SessionReturned("get_blueprints")
    /\ Authorization = BasicHeader(2)
    /\ serverTokens = {2}

\* C21: the steps of launch and teardown are sequenced.  The setup poll
\* runs only after start_sandbox has returned the id of the new sandbox;
\* a stop request is sent only inside teardown_sandbox; the watermark read
\* and the teardown poll run only after the stop request was answered with
\* success; inside one poll every value fetched so far was classified as
\* "keep polling" before the next fetch, with one sleep between two
\* fetches.
C21_Sequencing ==
    /\ (ctl = "launch_sandbox" /\ pc \in {"poll_fetch", "poll_sleep",
                                          "setup_done"})
       => (startReturns >= 1 /\ sandbox_id = "sb1" /\ orch = "SETUP")
    /\ (stop_response # None) => (ctl = "teardown_sandbox" /\ stopCalls >= 1)
    /\ (ctl = "teardown_sandbox" /\ pc \in {"td_watermark", "poll_fetch",
                                            "poll_sleep", "td_done"})
       => (stop_response = "success" /\ orch = "TEARDOWN")
    /\ (ctl \in {"launch_sandbox", "teardown_sandbox"}
          /\ pc \in {"poll_fetch", "poll_sleep"})
       => /\ AllInProgressSandbox
          /\ pc = "poll_fetch" => Len(fetched) * Interval = elapsed
          /\ pc = "poll_sleep" => (Len(fetched) - 1) * Interval = elapsed

\* the second fetch of a teardown poll is about to start, in a teardown
\* that follows a launch
C21_Witness ==
    /\ ctl = "teardown_sandbox" /\ pc = "poll_fetch"
    /\ Len(fetched) = 1 /\ startReturns = 1 /\ stopCalls = 1

\* C22: a stop request whose answer does not report success makes
\* stop_sandbox raise TeardownFailedException at once, with an empty list
\* of error events: no watermark was read and no teardown poll was started.
C22_RejectedStopRaises ==
    (stop_response = "failed")
    => /\ pc = "done"
       /\ apiOutcome =
             Raised("stop_sandbox", "TeardownFailedException", << >>)
       /\ outcome =
             Raised("teardown_sandbox", "TeardownFailedException", << >>)
       /\ fetched = << >> /\ latest_event_id = 0 /\ orch = None

\* the stop request is rejected while the feed holds an error event
C22_Witness ==
    /\ stop_response = "failed" /\ pc = "done"
    /\ \E i \in 1..Len(events) : IsError(events[i])

\* C23: every polling variant called with (max_polling_minutes,
\* polling_frequency_seconds) waits polling_frequency_seconds seconds
\* between two fetches and times out after max_polling_minutes * 60
\* seconds.
C23_UniformDeadline ==
    (retry_settings # NoSettings)
    => /\ retry_settings.wait_seconds = seconds_arg
       /\ retry_settings.timeout_seconds = minutes_arg * SecondsPerMinute

\* the fields of a SandboxRestController
RestControllerFields ==
    <<sandbox_id, setup_finished, sandbox_ended, setup_errors,
      teardown_errors, all_components>>

\* C24: start_sandbox_and_poll on a SandboxRestController that has a
\* sandbox_id raises ValueError without a call of api.start_sandbox, and
\* stop_sandbox_and_poll on one whose sandbox_ended flag is set raises
\* ValueError without a call of api.stop_sandbox; neither changes a field
\* of the controller or fetches anything.
C24_PreconditionErrors ==
    [][/\ (calls' # calls /\ outcome'.op = "start_sandbox_and_poll"
              /\ sandbox_id # None)
          => /\ outcome' =
                   Raised("start_sandbox_and_poll", "ValueError", << >>)
             /\ startCalls' = startCalls /\ stopCalls' = stopCalls
             /\ UNCHANGED <<RestControllerFields, fetched, sbState>>
       /\ (calls' # calls /\ outcome'.op = "stop_sandbox_and_poll"
              /\ sandbox_ended)
          => /\ outcome' =
                   Raised("stop_sandbox_and_poll", "ValueError", << >>)
             /\ startCalls' = startCalls /\ stopCalls' = stopCalls
             /\ UNCHANGED <<RestControllerFields, fetched, sbState>>]_vars

\* a controller attached to a sandbox whose sandbox_ended flag is set has
\* rejected a start and then a stop
C24_Witness ==
    /\ outcome = Raised("stop_sandbox_and_poll", "ValueError", << >>)
    /\ sandbox_id = "sb1" /\ sandbox_ended
    /\ calls = 2 /\ startCalls = 0 /\ stopCalls = 0
    /\ sandbox_details = sbState

\* C30: a SandboxRestController constructed with the id of an existing
\* sandbox has setup_finished set iff the state it read is not a setup
\* state, and sandbox_ended set iff that state is Teardown or Ended.
C30_FlagsMatchState ==
    (calls = 0 /\ sandbox_id # None)
    => /\ setup_finished <=> sandbox_details \notin SANDBOX_SETUP_STATES
       /\ sandbox_ended <=> sandbox_details \in {"Teardown", "Ended"}

\* C25: when the body of the with-block raises and the teardown made by
\* __exit__ completes without an error, the exception of the body reaches
\* the code around the with-block.
C25_BodyExceptionPropagates ==
    (pc = "done" /\ scope = "left" /\ bodyExc # None
        /\ outcome = Returned("teardown_sandbox", None))
    => scopeOutcome = Raised("with", bodyExc, << >>)

\* C26: poll_sandbox_teardown returns normally only with the details of an
\* Ended sandbox, so that teardown_sandbox records
\* teardown_duration_seconds only for a sandbox that has ended.
C26_TeardownPollEnded ==
    /\ (apiOutcome.op = "poll_sandbox_teardown" /\ apiOutcome.kind = "return")
       => apiOutcome.state = "Ended"
    /\ (pc = "done" /\ ctl = "teardown_sandbox" /\ stop_response = "success"
           /\ outcome.kind = "return")
       => (sandbox_details = "Ended" /\ sbState = "Ended")

\* C27: when the teardown poll has returned, every error event the sandbox
\* wrote after the stop request is in the TeardownFailedException that
\* stop_sandbox raises.
C27_NoTeardownErrorLost ==
    (ctl = "teardown_sandbox" /\ pc = "done" /\ calls = 1
        /\ stop_response = "success" /\ sandbox_details # None
        /\ SelectSeq(events, IsError) # << >>)
    => apiOutcome = Raised("poll_sandbox_teardown", "TeardownFailedException",
                           SelectSeq(events, IsError))

\* C28: poll_sandbox_setup returns normally only with the details of a
\* Ready sandbox, so that launch_sandbox records setup_duration_seconds
\* only for a sandbox that is Ready.
C28_SetupPollReady ==
    /\ (apiOutcome.op = "poll_sandbox_setup" /\ apiOutcome.kind = "return")
       => apiOutcome.state = "Ready"
    /\ (pc = "done" /\ ctl = "launch_sandbox" /\ sandbox_details # None
           /\ outcome.kind = "return")
       => sandbox_details = "Ready"

\* C29: poll_command_execution returns normally only with an execution
\* whose status is Cancelled, Complete or Failed.
C29_ExecutionTerminal ==
    (apiOutcome.op = "poll_command_execution" /\ apiOutcome.kind = "return")
    => apiOutcome.state \in {"Cancelled", "Complete", "Failed"}

====
